---- MODULE Spec2Model ----
(***************************************************************************)
(* Material generator of the Godot image-to-material converter             *)
(* (material/src/lib.rs): generate = scan_for_import_files, then           *)
(* compile_material_mapping, then generate_material.                       *)
(*                                                                         *)
(* Text is modelled as sequences of one-character strings, so that         *)
(* str::contains, Path::extension and Path::with_extension are computed    *)
(* on characters.  A document is a sequence of lines; a line is the tuple  *)
(* of the pieces its format! call joins.                                   *)
(*                                                                         *)
(* generate_material of src/main.rs holds the same loop, checks and         *)
(* rendering inline; the library functions are the ones modelled.          *)
(*                                                                         *)
(* The candidates are the files the conversion step wrote: each carries    *)
(* the extension generate_new_filename gave it, so f.extension().unwrap()  *)
(* of the poll loop has a value.                                           *)
(*                                                                         *)
(* The file system belongs to the external editor: every existence check   *)
(* and every open may see any outcome, so each poll round may find any     *)
(* subset of the sidecars and each open may fail.  The text read from a    *)
(* sidecar is chosen when it is read.                                      *)
(***************************************************************************)
EXTENDS Integers, Sequences, FiniteSets, TLC

VARIABLES
    files,        \* generate's argument: the candidate file names
    pc,           \* position in generate: "scan", "scanned", "compile", "generate", "done"
    iters,        \* scan_for_import_files: iters (i8)
    files_found,  \* scan_for_import_files / generate: files_found
    present,      \* indices of the candidates whose sidecar the latest round found
    seen,         \* indices of the candidates whose sidecar some round has found
    rounds,       \* number of existence-check rounds performed
    notices,      \* number of "Waiting for .import files." notices printed
    dots,         \* number of "." progress indicators printed
    sleeps,       \* number of thread::sleep(1 s) calls
    idx,          \* compile_material_mapping: position of the for loop in files_found
    opened,       \* number of File::open calls made
    parsed,       \* per sidecar read: its text, and what its lines and its name yielded
    uid_mapping,  \* compile_material_mapping: uid_mapping
    result,       \* what generate returned: "none", "Ok", an Err kind, or a panic
    mat_data      \* the document text returned with Ok (sequence of lines)

vars == <<files, pc, iters, files_found, present, seen, rounds, notices, dots,
          sleeps, idx, opened, parsed, uid_mapping, result, mat_data>>

\* Option<String>::None; a captured text is never empty ([^"]+)
None == << >>

\* Option<GodotMaterialProperty>::None
NoProperty == "NoProperty"

----------------------------------------------------------------------------
(* Bounds of the model *)

MaxFiles == 2
MaxFrags == 2

(* Program constants *)

max_iters == 100
ShortTokenLen == 5
HeaderTokenLen == 12

----------------------------------------------------------------------------
(* Text *)

s_albedo    == <<"a","l","b","e","d","o">>
s_normal    == <<"n","o","r","m","a","l">>
s_height    == <<"h","e","i","g","h","t">>
s_roughness == <<"r","o","u","g","h","n","e","s","s">>
s_metallic  == <<"m","e","t","a","l","l","i","c">>
s_ao        == <<"_","a","o">>
s_png       == <<"p","n","g">>
s_import    == <<"i","m","p","o","r","t">>
s_dot       == <<".">>

\* str::contains
Contains(s, sub) ==
    \E i \in 1..(Len(s) - Len(sub) + 1) : SubSeq(s, i, i + Len(sub) - 1) = sub

\* position of the last "." of a file name, 0 when there is none
LastDot(f) ==
    IF \E i \in 1..Len(f) : f[i] = "."
    THEN CHOOSE i \in 1..Len(f) : f[i] = "." /\ \A j \in (i+1)..Len(f) : f[j] # "."
    ELSE 0

\* Path::extension: the text after the last "." of the file name
Extension(f) == SubSeq(f, LastDot(f) + 1, Len(f))

\* Path::with_extension: the extension replaced by e
WithExtension(f, e) == SubSeq(f, 1, LastDot(f) - 1) \o s_dot \o e

\* format!("{}.import", ext) given to with_extension
ImportPath(f) == WithExtension(f, Extension(f) \o s_dot \o s_import)

\* generate_new_filename (main.rs): every converted file is <stem>.png
FileName(stem) == stem \o s_dot \o s_png

s_wall  == <<"w","a","l","l","_">>
s_wood  == <<"w","o","o","d">>
s_chaos == <<"c","h","a","o","s">>

\* candidate names of the full program runs
CandidateNames == { FileName(s_wall \o s_albedo), FileName(s_chaos) }

\* candidate names covering every role, and one with no role
RoleNames ==
    { FileName(s_wall \o s_albedo), FileName(s_wall \o s_normal),
      FileName(s_wall \o s_height), FileName(s_wall \o s_roughness),
      FileName(s_wall \o s_metallic), FileName(s_wood \o s_ao),
      FileName(s_chaos) }

\* name fragments and the stems made of 1..MaxFrags of them
Frags ==
    { s_albedo, s_normal, s_height, s_roughness, s_metallic, s_ao,
      <<"a","o">>, <<"w","a","l","l">> }

RECURSIVE Stems(_)
Stems(n) ==
    IF n = 0 THEN { <<>> }
    ELSE Stems(n - 1) \cup { s \o f : s \in Stems(n - 1), f \in Frags }

FragNames == { FileName(s) : s \in Stems(MaxFrags) \ { <<>> } }

Lists(S, n) == UNION { [1..k -> S] : k \in 0..n }

\* decimal digits of a natural number, as format!("{}") prints it
Digit(d) == <<"0","1","2","3","4","5","6","7","8","9">>[d + 1]

RECURSIVE ToStr(_)
ToStr(n) == IF n < 10 THEN <<Digit(n)>> ELSE ToStr(n \div 10) \o <<Digit(n % 10)>>

\* i8 arithmetic of a release build: the value wraps at 8 bits
I8(x) == ((x + 128) % 256) - 128

----------------------------------------------------------------------------
(* Sidecar text: a sequence of lines, a line a sequence of key="value"      *)
(* fields left to right.                                                    *)

Fld(k, s, v) == [key |-> k, scheme |-> s, val |-> v]

SidecarTexts ==
    { << <<Fld("importer", "", "texture")>>,
         <<Fld("uid", "uid://", "abc123")>>,
         <<Fld("source_file", "res://", "a.png")>> >>,
      << <<Fld("uid", "uid://", "abc123")>>,
         <<Fld("source_file", "res://", "a.png")>>,
         <<Fld("uid", "uid://", "def456"), Fld("uid", "uid://", "abc123")>>,
         <<Fld("source_file", "res://", "b.png")>>,
         <<Fld("path", "res://", "c.png")>> >>,
      << <<Fld("guid", "uid://", "abc123")>>,
         <<Fld("source_file", "res://", "a.png")>> >>,
      << <<Fld("uid", "uid://", "abc123")>>,
         <<Fld("source_file", "file://", "a.png")>> >>,
      << >> }

\* uid_regex \buid="uid://([^"]+)" : group 1 of the leftmost match in the line
UidMatches(fld) == fld.key = "uid" /\ fld.scheme = "uid://" /\ fld.val # ""

UidCapture(line) ==
    IF \E i \in 1..Len(line) : UidMatches(line[i])
    THEN LET i == CHOOSE i \in 1..Len(line) :
                     UidMatches(line[i]) /\ \A j \in 1..(i-1) : ~UidMatches(line[j])
         IN  <<line[i].val>>
    ELSE None

\* sf_regex \bsource_file="(res://[^"]+)" : group 1 holds the res:// prefix too
SfMatches(fld) == fld.key = "source_file" /\ fld.scheme = "res://" /\ fld.val # ""

SfCapture(line) ==
    IF \E i \in 1..Len(line) : SfMatches(line[i])
    THEN LET i == CHOOSE i \in 1..Len(line) :
                     SfMatches(line[i]) /\ \A j \in 1..(i-1) : ~SfMatches(line[j])
         IN  <<line[i].scheme, line[i].val>>
    ELSE None

\* a scan that keeps the first value found
RECURSIVE ScanLinesFirstMatch(_, _, _)
ScanLinesFirstMatch(data, uid, source_file) ==
    IF data = << >> THEN [uid |-> uid, source_file |-> source_file]
    ELSE ScanLinesFirstMatch(Tail(data),
                   IF uid = None THEN UidCapture(Head(data)) ELSE uid,
                   IF source_file = None THEN SfCapture(Head(data)) ELSE source_file)

\* for line in data.lines(): every match overwrites uid / source_file
RECURSIVE ScanLines(_, _, _)
ScanLines(data, uid, source_file) ==
    IF data = << >> THEN [uid |-> uid, source_file |-> source_file]
    ELSE ScanLines(Tail(data),
                   IF UidCapture(Head(data)) # None THEN UidCapture(Head(data)) ELSE uid,
                   IF SfCapture(Head(data)) # None THEN SfCapture(Head(data))
                                                  ELSE source_file)

----------------------------------------------------------------------------
(* Role classification *)

get_godot_propertyNormalFirst(path) ==
    IF Contains(path, s_normal) THEN "NormalTexture"
    ELSE IF Contains(path, s_albedo) THEN "AlbedoTexture"
    ELSE IF Contains(path, s_height) THEN "HeightTexture"
    ELSE IF Contains(path, s_roughness) THEN "RoughnessTexture"
    ELSE IF Contains(path, s_metallic) THEN "MetallicTexture"
    ELSE IF Contains(path, s_ao) THEN "AmbientOcclusionTexture"
    ELSE NoProperty

\* get_godot_property: path.file_name() is the text modelled, and the chain
\* of early returns
get_godot_property(path) ==
    IF Contains(path, s_albedo) THEN "AlbedoTexture"
    ELSE IF Contains(path, s_normal) THEN "NormalTexture"
    ELSE IF Contains(path, s_height) THEN "HeightTexture"
    ELSE IF Contains(path, s_roughness) THEN "RoughnessTexture"
    ELSE IF Contains(path, s_metallic) THEN "MetallicTexture"
    ELSE IF Contains(path, s_ao) THEN "AmbientOcclusionTexture"
    ELSE NoProperty

----------------------------------------------------------------------------
(* Random identifiers *)

TokenChars == { "a", "7" }

\* generate_godot_uid(length): some lower-case alphanumeric text of that length
Tokens(length) == { [i \in 1..length |-> c] : c \in TokenChars }

ShortUidTokenOnly(len, token) == token

\* format!("{}_{}", uid_mapping.len() + 1, generate_godot_uid(5))
ShortUid(len, token) == ToStr(len + 1) \o <<"_">> \o token

----------------------------------------------------------------------------
(* Document text: the pieces pushed onto mat_data, "\n" a piece of its own *)

NL == "\n"

RECURSIVE Concat(_)
Concat(seqs) == IF seqs = << >> THEN << >> ELSE Head(seqs) \o Concat(Tail(seqs))

generate_header(token) ==
    <<"[gd_resource type=\"StandardMaterial3D\" format=3 uid=\"uid://">>
        \o token \o <<"\"]", NL, NL>>

ExtResourceLineUidAsId(res) ==
    <<"[ext_resource type=\"Texture2D\" path=\"">> \o res.source_file
        \o <<"\" uid=\"uid://">> \o res.uid
        \o <<"\" id=\"">> \o res.uid \o <<"\"]", NL>>

\* generate_ext_resources: the line pushed for one record
ExtResourceLine(res) ==
    <<"[ext_resource type=\"Texture2D\" path=\"">> \o res.source_file
        \o <<"\" uid=\"uid://">> \o res.uid
        \o <<"\" id=\"">> \o res.short_uid \o <<"\"]", NL>>

generate_ext_resources(mapping) ==
    Concat([k \in 1..Len(mapping) |-> ExtResourceLine(mapping[k])])

TextureLine(name, short_uid) ==
    <<NL, name, " = ExtResource(\"">> \o short_uid \o <<"\")">>

\* the match arms of generate_resources
PropertyLines(prop) ==
    CASE prop.property = "AlbedoTexture" ->
            TextureLine("albedo_texture", prop.short_uid)
      [] prop.property = "NormalTexture" ->
            <<NL, "normal_enabled = true">>
                \o TextureLine("normal_texture", prop.short_uid)
      [] prop.property = "RoughnessTexture" ->
            TextureLine("roughness_texture", prop.short_uid)
      [] prop.property = "HeightTexture" ->
            <<NL, "heightmap_enabled = true">>
                \o TextureLine("heightmap_texture", prop.short_uid)
      [] prop.property = "MetallicTexture" ->
            <<NL, "metallic = 1.0">>
                \o TextureLine("metallic_texture", prop.short_uid)
      [] prop.property = "AmbientOcclusionTexture" ->
            <<NL, "ao_enabled = true">>
                \o TextureLine("ao_texture", prop.short_uid)

generate_resourcesOncePerRole(mapping) ==
    <<NL, "[resource]">>
        \o Concat([k \in 1..Len(mapping) |->
                      IF \E j \in 1..(k-1) : mapping[j].property = mapping[k].property
                      THEN << >> ELSE PropertyLines(mapping[k])])

generate_resources(mapping) ==
    <<NL, "[resource]">>
        \o Concat([k \in 1..Len(mapping) |-> PropertyLines(mapping[k])])

generate_material(mapping, token) ==
    generate_header(token) \o generate_ext_resources(mapping)
        \o generate_resources(mapping)

----------------------------------------------------------------------------
(* Conditions of generate, scan_for_import_files, compile_material_mapping *)

ImportsIncompleteOrEqual(nfound, nfiles) == nfound <= nfiles

ImportsIncompleteOffByOne(nfound, nfiles) == nfound + 1 < nfiles

\* generate: if files_found.len() < files.len()
ImportsIncomplete(nfound, nfiles) == nfound < nfiles

\* scan_for_import_files: if files_found.len() < files.len()
RoundIncomplete(nfound, nfiles) == nfound < nfiles

FirstIterationAlways(it) == it >= 0

\* scan_for_import_files: if iters == 0
FirstIteration(it) == it = 0

LoopBreakPastCap(it, nfound, nfiles) == it > max_iters \/ nfound = nfiles

\* scan_for_import_files: if iters >= max_iters || files_found.len() == files.len()
LoopBreak(it, nfound, nfiles) == it >= max_iters \/ nfound = nfiles

\* compile_material_mapping: if uid.is_some() && source_file.is_some()
HasBothFields(uid, source_file) == uid # None /\ source_file # None

MappingMismatchInverted(nmap, nfound) == nmap = nfound

ExpectFailureAsMismatch(io) == "IncompleteMapping"

\* compile_material_mapping: File::open(..).expect(..) and
\* read_to_string(..).expect(..) panic on an Err
ExpectFailure(io) == IF io = "open_failed" THEN "PanicOpen" ELSE "PanicRead"

\* generate: if uid_mapping.len() != files_found.len()
MappingMismatch(nmap, nfound) == nmap # nfound

NewRoundListKeepsEarlier(earlier) == earlier

\* scan_for_import_files: files_found = Vec::new() at the top of every iteration
NewRoundList(earlier) == << >>

\* the import paths pushed in one round, P the candidates whose pairing exists
FoundList(fs, P) ==
    LET at == SelectSeq([i \in 1..Len(fs) |-> i], LAMBDA i : i \in P)
    IN  [k \in 1..Len(at) |-> ImportPath(fs[at[k]])]

----------------------------------------------------------------------------
(* Initial states *)

\* generate is called with a candidate list
InitWith(names) ==
    /\ files \in Lists(names, MaxFiles)
    /\ pc = "scan"
    /\ iters = 0
    /\ files_found = << >>
    /\ present = {}
    /\ seen = {}
    /\ rounds = 0
    /\ notices = 0
    /\ dots = 0
    /\ sleeps = 0
    /\ idx = 1
    /\ opened = 0
    /\ parsed = << >>
    /\ uid_mapping = << >>
    /\ result = "none"
    /\ mat_data = << >>

Init == InitWith(CandidateNames)

\* scan_for_import_files has returned from a first round that found every pairing
ScannedWith(lists) ==
    /\ files \in lists
    /\ pc = "scanned"
    /\ iters = 1
    /\ files_found = FoundList(files, 1..Len(files))
    /\ present = 1..Len(files)
    /\ seen = 1..Len(files)
    /\ rounds = 1
    /\ notices = 0
    /\ dots = 0
    /\ sleeps = 0
    /\ idx = 1
    /\ opened = 0
    /\ parsed = << >>
    /\ uid_mapping = << >>
    /\ result = "none"
    /\ mat_data = << >>

InitCompile == ScannedWith(Lists(RoleNames, MaxFiles))

InitClassify == ScannedWith({ <<n>> : n \in FragNames })

----------------------------------------------------------------------------
(* Steps of generate *)

\* one iteration of the loop of scan_for_import_files
ScanRound ==
    /\ pc = "scan"
    /\ \E P \in SUBSET (1..Len(files)) :
         LET found == NewRoundList(files_found) \o FoundList(files, P)
             incomplete == RoundIncomplete(Len(found), Len(files))
             it == I8(iters + 1)
         IN  /\ files_found' = found
             /\ present' = P
             /\ seen' = seen \cup P
             /\ rounds' = rounds + 1
             /\ notices' = IF incomplete /\ FirstIteration(iters) THEN notices + 1
                                                                  ELSE notices
             /\ dots' = IF incomplete /\ ~FirstIteration(iters) THEN dots + 1 ELSE dots
             /\ sleeps' = IF incomplete THEN sleeps + 1 ELSE sleeps
             /\ iters' = it
             /\ pc' = IF LoopBreak(it, Len(found), Len(files)) THEN "scanned" ELSE "scan"
    /\ UNCHANGED <<files, idx, opened, parsed, uid_mapping, result, mat_data>>

\* generate: the check after scan_for_import_files returns
CheckImports ==
    /\ pc = "scanned"
    /\ IF ImportsIncomplete(Len(files_found), Len(files))
       THEN /\ result' = "IncompleteImportSet"
            /\ pc' = "done"
       ELSE /\ result' = result
            /\ pc' = "compile"
    /\ UNCHANGED <<files, iters, files_found, present, seen, rounds, notices, dots,
                   sleeps, idx, opened, parsed, uid_mapping, mat_data>>

\* one iteration of the for loop of compile_material_mapping
CompileFile ==
    /\ pc = "compile"
    /\ idx <= Len(files_found)
    /\ opened' = opened + 1
    /\ \E io \in { "ok", "open_failed", "read_failed" } :
         IF io # "ok"
         THEN /\ result' = ExpectFailure(io)
              /\ pc' = "done"
              /\ UNCHANGED <<idx, parsed, uid_mapping>>
         ELSE \E data \in SidecarTexts, token \in Tokens(ShortTokenLen) :
                LET import_file == files_found[idx]
                    got == ScanLines(data, None, None)
                    property == get_godot_property(import_file)
                IN  /\ parsed' = Append(parsed, [data |-> data,
                                                 uid |-> got.uid,
                                                 source_file |-> got.source_file,
                                                 property |-> property])
                    /\ IF HasBothFields(got.uid, got.source_file)
                       THEN IF property = NoProperty
                            THEN /\ result' = "PanicNoProperty"
                                 /\ pc' = "done"
                                 /\ UNCHANGED <<idx, uid_mapping>>
                            ELSE /\ uid_mapping' = Append(uid_mapping,
                                        [property |-> property,
                                         uid |-> got.uid,
                                         source_file |-> got.source_file,
                                         short_uid |-> ShortUid(Len(uid_mapping), token)])
                                 /\ idx' = idx + 1
                                 /\ UNCHANGED <<pc, result>>
                       ELSE /\ idx' = idx + 1
                            /\ UNCHANGED <<pc, result, uid_mapping>>
    /\ UNCHANGED <<files, iters, files_found, present, seen, rounds, notices, dots,
                   sleeps, mat_data>>

\* generate: the check after compile_material_mapping returns
CheckMapping ==
    /\ pc = "compile"
    /\ idx > Len(files_found)
    /\ IF MappingMismatch(Len(uid_mapping), Len(files_found))
       THEN /\ result' = "IncompleteMapping"
            /\ pc' = "done"
       ELSE /\ result' = result
            /\ pc' = "generate"
    /\ UNCHANGED <<files, iters, files_found, present, seen, rounds, notices, dots,
                   sleeps, idx, opened, parsed, uid_mapping, mat_data>>

\* generate: Ok(generate_material(&uid_mapping))
GenerateMaterial ==
    /\ pc = "generate"
    /\ \E token \in Tokens(HeaderTokenLen) :
         mat_data' = generate_material(uid_mapping, token)
    /\ result' = "Ok"
    /\ pc' = "done"
    /\ UNCHANGED <<files, iters, files_found, present, seen, rounds, notices, dots,
                   sleeps, idx, opened, parsed, uid_mapping>>

Next == ScanRound \/ CheckImports \/ CompileFile \/ CheckMapping \/ GenerateMaterial

Spec == Init /\ [][Next]_vars

\* the single thread of generate keeps running until it returns
FairSpec == Init /\ [][Next]_vars /\ WF_vars(Next)

NextCompile == CheckImports \/ CompileFile \/ CheckMapping \/ GenerateMaterial

\* compile_material_mapping and generate_material on the lists the locator returns
CompileSpec == InitCompile /\ [][NextCompile]_vars

\* the same on single files whose names are made of the name fragments
ClassifySpec == InitClassify /\ [][NextCompile]_vars

----------------------------------------------------------------------------
(* Vocabulary of the properties *)

AllCandidates == 1..Len(files)

Returned == pc = "done"

\* every pairing was found by one and the same round
AllFound == Len(files_found) = Len(files)

\* an open or a read of a sidecar failed
IoFailed == result \in { "PanicOpen", "PanicRead" }

\* a sidecar that was read gave a uid, a source path and a role
Yields(p) == p.uid # None /\ p.source_file # None /\ p.property # NoProperty

LacksField(p) == p.uid = None \/ p.source_file = None

----------------------------------------------------------------------------
(* C1: as long as some candidate's sidecar has been absent at every poll    *)
(* round, no sidecar is opened or parsed and no document text exists; the   *)
(* loop is left only after max_iters rounds, and generate then returns the  *)
(* IncompleteImportSet error.                                               *)
C1_MissingSidecarFails ==
    seen # AllCandidates =>
        /\ opened = 0
        /\ parsed = << >>
        /\ uid_mapping = << >>
        /\ mat_data = << >>
        /\ pc \in { "scan", "scanned", "done" }
        /\ result \in { "none", "IncompleteImportSet" }
        /\ pc # "scan" => rounds = max_iters
        /\ Returned => result = "IncompleteImportSet"

\* one of two sidecars was found in some round, the other never
C1_Witness ==
    /\ Returned
    /\ Len(files) = 2
    /\ Cardinality(seen) = 1
    /\ result = "IncompleteImportSet"

----------------------------------------------------------------------------
(* C2, as stated: whenever every candidate's sidecar has been present in    *)
(* some round of the budget, and every sidecar read was readable and        *)
(* yielded uid, source path and role, generate returns Ok with as many      *)
(* mapping records as candidates.                                           *)
C2_EachSeenSucceeds ==
    ( /\ Returned
      /\ seen = AllCandidates
      /\ ~IoFailed
      /\ \A k \in 1..Len(parsed) : Yields(parsed[k]) ) =>
        /\ result = "Ok"
        /\ Len(uid_mapping) = Len(files)

(* C2, amended: whenever one round of the budget finds every candidate's    *)
(* sidecar at once, and every sidecar is readable and yields uid, source    *)
(* path and role, generate returns Ok with the document and as many         *)
(* mapping records as candidates.                                           *)
C2_AllFoundSucceeds ==
    ( /\ Returned
      /\ AllFound
      /\ ~IoFailed
      /\ \A k \in 1..Len(parsed) : Yields(parsed[k]) ) =>
        /\ result = "Ok"
        /\ Len(parsed) = Len(files)
        /\ Len(uid_mapping) = Len(files)
        /\ mat_data # << >>

\* two sidecars, complete only after some waiting, both yielding everything
C2_Witness ==
    /\ Returned
    /\ Len(files) = 2
    /\ rounds > 1
    /\ AllFound
    /\ Len(parsed) = 2
    /\ \A k \in 1..Len(parsed) : Yields(parsed[k])
    /\ result = "Ok"

----------------------------------------------------------------------------
(* C3: when all sidecars are found and readable but one lacks a uid line or *)
(* a source_file line, that sidecar gives no mapping record and generate    *)
(* returns the IncompleteMapping error, with no document.                   *)
C3_LackingFieldIsIncompleteMapping ==
    ( /\ Returned
      /\ AllFound
      /\ ~IoFailed
      /\ \E k \in 1..Len(parsed) : LacksField(parsed[k]) ) =>
        /\ result = "IncompleteMapping"
        /\ Len(uid_mapping) < Len(files_found)
        /\ mat_data = << >>

----------------------------------------------------------------------------
(* C4: a sidecar whose name matches no role, read with both its uid and its *)
(* source path, gives no mapping record, and generate returns the           *)
(* IncompleteMapping error, with no document.                               *)
C4_NoRoleIsIncompleteMapping ==
    ( /\ Returned
      /\ ~IoFailed
      /\ \E k \in 1..Len(parsed) :
            /\ parsed[k].property = NoProperty
            /\ ~LacksField(parsed[k]) ) =>
        /\ result = "IncompleteMapping"
        /\ \A m \in 1..Len(uid_mapping) : uid_mapping[m].property # NoProperty
        /\ mat_data = << >>

----------------------------------------------------------------------------
(* C5: the poll loop ends under every behaviour of the file system; it goes *)
(* on only while no round has found every sidecar and fewer than max_iters  *)
(* rounds were made, it is left with either all sidecars found or the cap   *)
(* reached, and neither the number of rounds nor the counter exceeds 100    *)
(* (the 8-bit counter equals the number of rounds: it never wrapped).       *)
C5_Bounded ==
    /\ rounds <= max_iters
    /\ iters <= max_iters
    /\ iters = rounds
    /\ pc = "scan" => /\ rounds < max_iters
                      /\ rounds > 0 => ~AllFound
    /\ pc # "scan" => AllFound \/ rounds = max_iters

C5_PollLoopTerminates == []C5_Bounded /\ <>(pc # "scan")

\* the loop was left before the cap, after some waiting
C5_Witness ==
    /\ pc = "scanned"
    /\ rounds > 1
    /\ rounds < max_iters
    /\ AllFound
    /\ Len(files) > 0

----------------------------------------------------------------------------
(* Reading a document back *)

\* the lines of a text: the pieces between its "\n" pieces
RECURSIVE SplitLines(_, _)
SplitLines(text, cur) ==
    IF text = << >> THEN <<cur>>
    ELSE IF Head(text) = NL THEN <<cur>> \o SplitLines(Tail(text), << >>)
    ELSE SplitLines(Tail(text), Append(cur, Head(text)))

DocLines(text) == SplitLines(text, << >>)

\* the pieces of a template that close a quoted value
Closers == { "\" uid=\"uid://", "\" id=\"", "\"]", "\")" }

\* the value that follows the piece `opener` in a line, up to the closing piece
RECURSIVE UpToCloser(_)
UpToCloser(s) ==
    IF s = << >> \/ Head(s) \in Closers THEN << >>
    ELSE <<Head(s)>> \o UpToCloser(Tail(s))

ValueAfter(line, opener) ==
    LET at == CHOOSE i \in 1..Len(line) :
                  line[i] = opener /\ \A j \in 1..(i-1) : line[j] # opener
    IN  UpToCloser(SubSeq(line, at + 1, Len(line)))

Has(line, piece) == \E i \in 1..Len(line) : line[i] = piece

ExtOpener == "[ext_resource type=\"Texture2D\" path=\""
RefOpener == " = ExtResource(\""

IsExtLine(line) == line # << >> /\ line[1] = ExtOpener

ExtLines(lines) == SelectSeq(lines, IsExtLine)

\* the lines after the [resource] line
ResourceBlock(lines) ==
    LET at == CHOOSE i \in 1..Len(lines) : lines[i] = <<"[resource]">>
    IN  SubSeq(lines, at + 1, Len(lines))

----------------------------------------------------------------------------
(* C6: the role found for a file is the role of the earliest rule, in the   *)
(* order albedo, normal, height, roughness, metallic, _ao, whose substring  *)
(* occurs in the candidate's name, and no role exactly when none occurs.    *)
Rules ==
    << [sub |-> s_albedo,    role |-> "AlbedoTexture"],
       [sub |-> s_normal,    role |-> "NormalTexture"],
       [sub |-> s_height,    role |-> "HeightTexture"],
       [sub |-> s_roughness, role |-> "RoughnessTexture"],
       [sub |-> s_metallic,  role |-> "MetallicTexture"],
       [sub |-> s_ao,        role |-> "AmbientOcclusionTexture"] >>

Occurring(name) == { r \in 1..Len(Rules) : Contains(name, Rules[r].sub) }

EarliestRole(name) ==
    IF Occurring(name) = {} THEN NoProperty
    ELSE Rules[CHOOSE r \in Occurring(name) : \A q \in Occurring(name) : r <= q].role

----------------------------------------------------------------------------
(* C7: a generated document has one ext_resource line per mapping record,   *)
(* in list order, carrying that record's source path, uid and short_uid;    *)
(* and every ExtResource("...") of the [resource] block names the id of     *)
(* exactly one ext_resource line.                                           *)
C7_ExtResourcesMatchRecords ==
    result = "Ok" =>
        LET lines == DocLines(mat_data)
            ext == ExtLines(lines)
            block == ResourceBlock(lines)
        IN  /\ Len(ext) = Len(uid_mapping)
            /\ \A k \in 1..Len(ext) :
                  /\ ValueAfter(ext[k], ExtOpener) = uid_mapping[k].source_file
                  /\ ValueAfter(ext[k], "\" uid=\"uid://") = uid_mapping[k].uid
                  /\ ValueAfter(ext[k], "\" id=\"") = uid_mapping[k].short_uid
            /\ \A n \in 1..Len(block) :
                  Has(block[n], RefOpener) =>
                      Cardinality({ k \in 1..Len(ext) :
                                       ValueAfter(ext[k], "\" id=\"")
                                           = ValueAfter(block[n], RefOpener) }) = 1

\* a document of two records whose uids and source paths differ
C7_Witness ==
    /\ result = "Ok"
    /\ Len(uid_mapping) = 2
    /\ uid_mapping[1].uid # uid_mapping[2].uid
    /\ uid_mapping[1].source_file # uid_mapping[2].source_file
    /\ Len(ExtLines(DocLines(mat_data))) = 2

----------------------------------------------------------------------------
(* C8: the short_uid of the record at position i of the mapping list is the *)
(* decimal i, "_" and a token of 5 characters, and the short_uids of one    *)
(* run are pairwise distinct, also when the tokens drawn are equal.         *)
TokenOf(short) == SubSeq(short, Len(short) - ShortTokenLen + 1, Len(short))

C8_ShortUidsDistinct ==
    /\ \A i \in 1..Len(uid_mapping) :
          /\ Len(uid_mapping[i].short_uid) = Len(ToStr(i)) + 1 + ShortTokenLen
          /\ SubSeq(uid_mapping[i].short_uid, 1, Len(ToStr(i)) + 1) = ToStr(i) \o <<"_">>
    /\ \A i, j \in 1..Len(uid_mapping) :
          i # j => uid_mapping[i].short_uid # uid_mapping[j].short_uid

\* two records that drew the same token
C8_Witness ==
    /\ Len(uid_mapping) = 2
    /\ TokenOf(uid_mapping[1].short_uid) = TokenOf(uid_mapping[2].short_uid)

----------------------------------------------------------------------------
(* C9: the [resource] block holds, record by record in list order, the      *)
(* lines fixed for the record's role (one for Albedo and Roughness, two for *)
(* the others), the texture line naming the record's short_uid; records of  *)
(* one role are not merged: k Albedo records give k albedo_texture lines.   *)
RoleLines(role) ==
    CASE role = "AlbedoTexture"    -> << <<"albedo_texture">> >>
      [] role = "RoughnessTexture" -> << <<"roughness_texture">> >>
      [] role = "NormalTexture"    -> << <<"normal_enabled = true">>, <<"normal_texture">> >>
      [] role = "HeightTexture"    ->
            << <<"heightmap_enabled = true">>, <<"heightmap_texture">> >>
      [] role = "MetallicTexture"  -> << <<"metallic = 1.0">>, <<"metallic_texture">> >>
      [] role = "AmbientOcclusionTexture" ->
            << <<"ao_enabled = true">>, <<"ao_texture">> >>

\* the block expected of a mapping list: a texture line is its name, then the
\* reference to the record's short_uid
RECURSIVE ExpectedBlock(_)
ExpectedBlock(mapping) ==
    IF mapping = << >> THEN << >>
    ELSE LET rec == Head(mapping)
             heads == RoleLines(rec.property)
             texture == heads[Len(heads)] \o <<RefOpener>> \o rec.short_uid \o <<"\")">>
         IN  SubSeq(heads, 1, Len(heads) - 1) \o <<texture>>
                 \o ExpectedBlock(Tail(mapping))

CountOf(role) == Cardinality({ k \in 1..Len(uid_mapping) : uid_mapping[k].property = role })

C9_ResourceBlockPerRecord ==
    result = "Ok" =>
        LET block == ResourceBlock(DocLines(mat_data))
        IN  /\ block = ExpectedBlock(uid_mapping)
            /\ Cardinality({ n \in 1..Len(block) : block[n][1] = "albedo_texture" })
                   = CountOf("AlbedoTexture")

\* a document of two Albedo records
C9_Witness ==
    /\ result = "Ok"
    /\ CountOf("AlbedoTexture") = 2

----------------------------------------------------------------------------
(* C10: every poll round that finds fewer sidecars than candidates is       *)
(* followed by one sleep, a round that finds them all by none; the first    *)
(* round, if incomplete, prints the waiting notice; every later incomplete  *)
(* round prints one progress indicator and no notice; the notice is printed *)
(* at most once.                                                            *)
C10_RoundOutput ==
    rounds' = rounds + 1 =>
        LET incomplete == Len(files_found') < Len(files) IN
        /\ sleeps' = sleeps + (IF incomplete THEN 1 ELSE 0)
        /\ notices' = notices + (IF incomplete /\ rounds = 0 THEN 1 ELSE 0)
        /\ dots' = dots + (IF incomplete /\ rounds > 0 THEN 1 ELSE 0)

C10_WaitingNoticeOnce == [](notices <= 1) /\ [][C10_RoundOutput]_vars

\* a notice, then progress indicators, then a complete round without a sleep
C10_Witness ==
    /\ pc = "scanned"
    /\ AllFound
    /\ notices = 1
    /\ dots >= 1
    /\ sleeps = rounds - 1

----------------------------------------------------------------------------
(* C11: the list the locator holds after a round is exactly the import      *)
(* paths of the candidates whose sidecar that round found, in candidate     *)
(* order; a sidecar found by an earlier round and missing in the latest one *)
(* is not in it, and nothing of an earlier round is carried over.           *)
RECURSIVE PathsOf(_, _)
PathsOf(from, P) ==
    IF from > Len(files) THEN << >>
    ELSE (IF from \in P THEN <<files[from] \o s_dot \o s_import>> ELSE << >>)
             \o PathsOf(from + 1, P)

C11_FoundListIsLastRound ==
    /\ Len(files_found) = Cardinality(present)
    /\ files_found = PathsOf(1, present)

\* the locator returned a list without a sidecar that an earlier round had found
C11_Witness ==
    /\ pc = "scanned"
    /\ Len(files) = 2
    /\ present = {2}
    /\ seen = {1, 2}

----------------------------------------------------------------------------
(* C12: when every sidecar was found by the final round but one of them     *)
(* cannot be opened or read by the compiler (more opens were made than      *)
(* sidecars parsed), the run has aborted with a panic: that file is not     *)
(* dropped, no IncompleteMapping error is returned, and no document exists. *)
C12_UnreadableSidecarAborts ==
    opened > Len(parsed) =>
        /\ present = AllCandidates
        /\ Returned
        /\ result \in { "PanicOpen", "PanicRead" }
        /\ idx = opened
        /\ mat_data = << >>

\* the second of two found sidecars could not be read after the first was parsed
C12_Witness ==
    /\ Len(files) = 2
    /\ AllFound
    /\ opened = 2
    /\ Len(parsed) = 1
    /\ result = "PanicRead"

----------------------------------------------------------------------------
(* C13: the uid extracted from a sidecar is the value captured from the     *)
(* last of its lines that match the uid pattern, and the source path the    *)
(* value captured from the last line that matches the source_file pattern,  *)
(* each field for itself; a field is absent exactly when no line matches.   *)
UidLines(data) == { i \in 1..Len(data) : \E n \in 1..Len(data[i]) : UidMatches(data[i][n]) }

SfLines(data) == { i \in 1..Len(data) : \E n \in 1..Len(data[i]) : SfMatches(data[i][n]) }

Last(S) == CHOOSE i \in S : \A j \in S : j <= i

C13_LastMatchWins ==
    \A k \in 1..Len(parsed) :
        LET data == parsed[k].data IN
        /\ parsed[k].uid = IF UidLines(data) = {} THEN None
                           ELSE UidCapture(data[Last(UidLines(data))])
        /\ parsed[k].source_file = IF SfLines(data) = {} THEN None
                                   ELSE SfCapture(data[Last(SfLines(data))])

\* a sidecar with two uid lines and two source_file lines of different values
C13_Witness ==
    \E k \in 1..Len(parsed) :
        LET data == parsed[k].data IN
        /\ \E i, j \in UidLines(data) : UidCapture(data[i]) # UidCapture(data[j])
        /\ \E i, j \in SfLines(data) : SfCapture(data[i]) # SfCapture(data[j])
        /\ Last(UidLines(data)) # Last(SfLines(data))
        /\ parsed[k].uid = <<"def456">>
        /\ parsed[k].source_file = <<"res://", "b.png">>

----------------------------------------------------------------------------
(* C14: for an empty candidate list generate makes exactly one poll round,  *)
(* with no sleep, no waiting notice and no progress indicator, opens no     *)
(* file, and returns Ok with a document made of the header, no ext_resource *)
(* line and a [resource] block without property lines; no error is          *)
(* returned.                                                                *)
HeaderOpener == "[gd_resource type=\"StandardMaterial3D\" format=3 uid=\"uid://"

C14_EmptyListGivesEmptyMaterial ==
    files = << >> =>
        /\ rounds <= 1
        /\ pc # "scan" => rounds = 1
        /\ sleeps = 0
        /\ notices = 0
        /\ dots = 0
        /\ opened = 0
        /\ result \in { "none", "Ok" }
        /\ Returned =>
              LET lines == DocLines(mat_data) IN
              /\ result = "Ok"
              /\ Len(lines) = 4
              /\ lines[1][1] = HeaderOpener
              /\ Len(lines[1]) = 1 + HeaderTokenLen + 1
              /\ lines[2] = << >>
              /\ lines[3] = << >>
              /\ lines[4] = <<"[resource]">>
              /\ ExtLines(lines) = << >>
              /\ ResourceBlock(lines) = << >>

\* generate returned for the empty list
C14_Witness ==
    /\ files = << >>
    /\ Returned
    /\ rounds = 1
    /\ mat_data # << >>

====
